---------------------------- MODULE Spec2Model ----------------------------
(***************************************************************************)
(* Model of update_charts.py: three fetches from the iDigBio summary       *)
(* statistics API, the reshaping of each JSON answer into a table, and     *)
(* the four chart functions, run in sequence by main.                      *)
(*                                                                         *)
(* Data representation                                                     *)
(*   date key     a tuple <<y>>, <<y, m>> or <<y, m, d>>: the components   *)
(*                of the ISO date string that keys the "dates" mapping     *)
(*   Timestamp    the integer y*10000 + m*100 + d                          *)
(*   metrics map  a function from metric names to counts (a JSON object)   *)
(*   dates        a sequence of [key, recs] entries with distinct keys:    *)
(*                the "dates" object in the order the server sent it       *)
(*   DataFrame    [columns |-> set of names, rows |-> sequence of rows],   *)
(*                a row being a function from the columns to cells         *)
(*   cell         [isna, v]: a number, or NaN                              *)
(***************************************************************************)
EXTENDS Integers, Sequences, FiniteSets, TLC

VARIABLES pc, resp, df_month, df_ing, df_use, w, pivot, requests, files, printed, err

vars == <<pc, resp, df_month, df_ing, df_use, w, pivot, requests, files, printed, err>>

-----------------------------------------------------------------------------
(* Bounds of the explored inputs *)

\* counts in a metrics map range over 0..MaxCount
MaxCount == 2

\* a monthly or ingestion answer holds at most MaxKeys date keys
MaxKeys == 2

\* an annual-summary input holds at most MaxRows (date, metric) entries
MaxRows == 2

Counts == 0..MaxCount

-----------------------------------------------------------------------------
(* Values *)

\* args.recordset, and another recordset the server may report on
recordset == "rs1"

OtherRecordset == "rs2"

NaN == [isna |-> TRUE, v |-> 0]

Num(n) == [isna |-> FALSE, v |-> n]

\* pd.DataFrame([]) : no rows, no columns
EmptyFrame == [columns |-> {}, rows |-> <<>>]

\* a name not yet bound in main
None == [columns |-> {"<unbound>"}, rows |-> <<>>]

NoPivot == [index |-> {}, columns |-> {"<unbound>"}, cell |-> <<>>]

NoResponse == [status |-> 0, dates |-> <<>>]

Range(s) == {s[i] : i \in DOMAIN s}

\* dict.get(key, {})
DictGet(d, key) == IF key \in DOMAIN d THEN d[key] ELSE <<>>

\* pd.to_datetime on an ISO date string: missing month and day read as 1
to_datetime(k) ==
    k[1] * 10000 + (IF Len(k) >= 2 THEN k[2] ELSE 1) * 100
                 + (IF Len(k) >= 3 THEN k[3] ELSE 1)

\* Series.dt.year
YearOf(ts) == ts \div 10000

\* Response.raise_for_status: raises HTTPError on a 4xx or 5xx status
RaisesForStatus(status) == status >= 400 /\ status < 600

-----------------------------------------------------------------------------
(* The inputs: answers of the API *)

MetricMaps(M) == UNION {[S -> Counts] : S \in SUBSET M}

\* what one date key maps to: the requested recordset with some metrics, or
\* only another recordset
RecsOptions(M) ==
    {(recordset :> m) : m \in MetricMaps(M)}
        \cup {(OtherRecordset :> [x \in M |-> MaxCount])}

\* the sequences of distinct keys from K, of length at most n
RECURSIVE KeySeqs(_, _)
KeySeqs(K, n) ==
    IF n = 0 THEN {<<>>}
    ELSE LET shorter == KeySeqs(K, n - 1)
         IN  shorter \cup
             UNION {{Append(s, k) : k \in K \ Range(s)} :
                        s \in {t \in shorter : Len(t) = n - 1}}

\* the "dates" object with the keys ks in this order, key ks[i] mapped to f[i]
Dates(ks, f) == [i \in DOMAIN ks |-> [key |-> ks[i], recs |-> f[i]]]

\* HTTP statuses the server may answer with
ErrorStatuses == {404, 503}

ErrorResponses == {[status |-> s, dates |-> <<>>] : s \in ErrorStatuses}

Ok(dates) == [status |-> 200, dates |-> dates]

OkResponses(D) == {Ok(d) : d \in D}

\* monthly usage: two keys of February 2021 that name the same month start
MonthlyKeys == {<<2021, 1, 1>>, <<2021, 2, 1>>, <<2021, 2>>}

MonthlyMetrics == {"search", "download"}

-----------------------------------------------------------------------------
(* fetch_monthly_usage *)

\* pd.DataFrame(rows) on a list of dicts: the columns are the union of the
\* keys, and a key a row lacks is NaN in that row
DataFrame(rows) ==
    LET cols == UNION {DOMAIN rows[i] : i \in DOMAIN rows}
    IN  [columns |-> cols,
         rows |-> [i \in DOMAIN rows |->
                     [c \in cols |-> IF c \in DOMAIN rows[i] THEN rows[i][c] ELSE NaN]]]

\* the row built for one entry of the "dates" mapping (the loop body)
MonthlyRow(e) ==
    LET m == DictGet(e.recs, recordset)
    IN  [c \in DOMAIN m |-> Num(m[c])]
            @@ ("Date" :> Num(to_datetime(e.key)))

MonthlyRows(dates) == [i \in DOMAIN dates |-> MonthlyRow(dates[i])]

IsSortedBy(rows, col) ==
    \A i, j \in DOMAIN rows : i < j => rows[i][col].v <= rows[j][col].v

Permutation(n) == {p \in [1..n -> 1..n] : \A i, j \in 1..n : p[i] = p[j] => i = j}

\* DataFrame.sort_values(col): KeyError without the column; the rows in
\* ascending order of col, rows of equal col in any order (quicksort)
sort_values(df, col) ==
    IF col \notin df.columns
    THEN {[err |-> "KeyError", df |-> None]}
    ELSE {[err |-> "none", df |-> [columns |-> df.columns, rows |-> s]] :
            s \in {t \in {[i \in DOMAIN df.rows |-> df.rows[p[i]]] :
                            p \in Permutation(Len(df.rows))} :
                     IsSortedBy(t, col)}}

\* the possible results of fetch_monthly_usage on the answer r
fetch_monthly_usage(r) ==
    IF RaisesForStatus(r.status)
    THEN {[err |-> "HTTPError", df |-> None]}
    ELSE sort_values(DataFrame(MonthlyRows(r.dates)), "Date")

\* plot_usage_bar: KeyError when a plotted column is missing, ValueError from
\* set_ylim when the maximum of the two columns is NaN, else the file is saved
plot_usage_bar(df) ==
    IF ~({"Date", "search", "download"} \subseteq df.columns) THEN "KeyError"
    ELSE IF \E i \in DOMAIN df.rows : df.rows[i]["search"].isna \/ df.rows[i]["download"].isna
         THEN "ValueError"
         ELSE "none"

-----------------------------------------------------------------------------
(* fetch_ingest_stats, plot_ingest_stats *)

\* a variant that keeps the 'mediarecords' metric as well
IngestRowsOf_with_media(e) ==
    LET m  == DictGet(e.recs, recordset)
        ms == SelectSeq(<<"records", "mediarecords">>, LAMBDA x : x \in DOMAIN m)
    IN  [i \in DOMAIN ms |->
            [Date |-> to_datetime(e.key), Metric |-> ms[i], Count |-> m[ms[i]]]]

\* the rows appended for one entry of the "dates" mapping: one 'records' row
\* when the requested recordset has that metric, none otherwise
IngestRowsOf(e) ==
    LET m == DictGet(e.recs, recordset)
    IN  IF "records" \in DOMAIN m
        THEN <<[Date |-> to_datetime(e.key), Metric |-> "records", Count |-> m["records"]]>>
        ELSE <<>>

RECURSIVE IngestRows(_)
IngestRows(dates) ==
    IF dates = <<>> THEN <<>>
    ELSE IngestRowsOf(Head(dates)) \o IngestRows(Tail(dates))

fetch_ingest_stats(r) ==
    IF RaisesForStatus(r.status)
    THEN [err |-> "HTTPError", df |-> None]
    ELSE [err |-> "none", df |-> DataFrame(IngestRows(r.dates))]

\* plot_ingest_stats: df["Metric"] is a KeyError on a frame without columns
plot_ingest_stats(df) ==
    IF ~({"Date", "Metric", "Count"} \subseteq df.columns) THEN "KeyError" ELSE "none"

-----------------------------------------------------------------------------
(* fetch_use_stats *)

\* the order in which the metrics of one date are listed
MetricOrder ==
    <<"search", "download", "seen", "viewed_records", "download_count",
      "search_count", "records", "mediarecords">>

UseRowsOf(e) ==
    LET m  == DictGet(e.recs, recordset)
        ms == SelectSeq(MetricOrder, LAMBDA x : x \in DOMAIN m)
    IN  [i \in DOMAIN ms |->
            [Date |-> to_datetime(e.key), Metric |-> ms[i], Count |-> m[ms[i]]]]

RECURSIVE UseRows(_)
UseRows(dates) ==
    IF dates = <<>> THEN <<>>
    ELSE UseRowsOf(Head(dates)) \o UseRows(Tail(dates))

fetch_use_stats(r) ==
    IF RaisesForStatus(r.status)
    THEN [err |-> "HTTPError", df |-> None]
    ELSE [err |-> "none", df |-> DataFrame(UseRows(r.dates))]

-----------------------------------------------------------------------------
(* plot_ratios *)

LongColumns == {"Date", "Metric", "Count"}

\* the rows of a long table for one (index value, metric) pair; key is the
\* index column ("Date" or "Year")
RowsFor(df, key, d, m) ==
    {i \in DOMAIN df.rows : df.rows[i][key] = d /\ df.rows[i]["Metric"] = m}

RECURSIVE SumCounts(_, _)
SumCounts(df, I) ==
    IF I = {} THEN 0
    ELSE LET i == CHOOSE x \in I : TRUE
         IN  df.rows[i]["Count"] + SumCounts(df, I \ {i})

\* DataFrame.pivot(index="Date", columns="Metric", values="Count"): KeyError
\* without the columns, ValueError when an (index, column) pair occurs twice,
\* NaN where a pair does not occur
df_pivot(df) ==
    IF ~(LongColumns \subseteq df.columns)
    THEN [err |-> "KeyError", frame |-> NoPivot]
    ELSE IF \E i, j \in DOMAIN df.rows :
                /\ i < j
                /\ df.rows[i]["Date"] = df.rows[j]["Date"]
                /\ df.rows[i]["Metric"] = df.rows[j]["Metric"]
    THEN [err |-> "ValueError", frame |-> NoPivot]
    ELSE LET idx  == {df.rows[i]["Date"] : i \in DOMAIN df.rows}
             cols == {df.rows[i]["Metric"] : i \in DOMAIN df.rows}
         IN  [err |-> "none",
              frame |-> [index |-> idx, columns |-> cols,
                         cell |-> [d \in idx |-> [m \in cols |->
                            IF RowsFor(df, "Date", d, m) = {} THEN NaN
                            ELSE Num(SumCounts(df, RowsFor(df, "Date", d, m)))]]]]

\* DataFrame.fillna(n)
fillna(f, n) ==
    [f EXCEPT !.cell = [d \in f.index |-> [m \in f.columns |->
                            IF f.cell[d][m].isna THEN Num(n) ELSE f.cell[d][m]]]]

\* frame[col] of a pivoted frame: the column as a Series over the index
Column(f, col) == [d \in f.index |-> f.cell[d][col]]

\* Series.replace(a, b)
replace(ser, a, b) ==
    [d \in DOMAIN ser |-> IF ~ser[d].isna /\ ser[d].v = a THEN Num(b) ELSE ser[d]]

RECURSIVE GCD(_, _)
GCD(a, b) == IF b = 0 THEN a ELSE GCD(b, a % b)

\* floating-point values of the ratio columns, as fractions in lowest terms
Float(p, q) == [isna |-> FALSE, v |-> <<p \div GCD(p, q), q \div GCD(p, q)>>]

Inf == [isna |-> FALSE, v |-> <<1, 0>>]

FloatNaN == [isna |-> TRUE, v |-> <<0, 0>>]

\* elementwise true division of two Series: x/0 is inf, 0/0 and NaN are NaN
Divide(a, b) ==
    [d \in DOMAIN a |->
        IF a[d].isna \/ b[d].isna THEN FloatNaN
        ELSE IF b[d].v = 0 THEN (IF a[d].v = 0 THEN FloatNaN ELSE Inf)
        ELSE Float(a[d].v, b[d].v)]

\* a variant that divides by the column as it is
Denominator_unclamped(f, col) == Column(f, col)

\* the denominator of a ratio: the column with 0 replaced by 1
Denominator(f, col) == replace(Column(f, col), 0, 1)

\* frame[col] = series
SetColumn(f, col, ser) ==
    [f EXCEPT !.columns = @ \cup {col},
              !.cell = [d \in f.index |-> (col :> ser[d]) @@ f.cell[d]]]

RatioColumns == {"download", "download_count", "search_count", "viewed_records"}

\* the ratio column num / den, computed from the pivoted columns
Ratio(f, num, den) == Divide(Column(f, num), Denominator(f, den))

\* plot_ratios: the error raised ("none": the chart is saved), the pivoted
\* frame w with the ratio columns set before the error, and the caller's
\* frame after the call.  The three assignments read only pivoted columns, so
\* each ratio is computed from w0
plot_ratios(df) ==
    LET p  == df_pivot(df)
        w0 == fillna(p.frame, 0)
        w1 == SetColumn(w0, "dlRatio", Ratio(w0, "download", "download_count"))
        w2 == SetColumn(w1, "sdRatio", Ratio(w0, "download", "search_count"))
        w3 == SetColumn(w2, "vsRatio", Ratio(w0, "viewed_records", "search_count"))
    IN  IF p.err # "none" THEN [err |-> p.err, w |-> NoPivot, df |-> df]
        ELSE IF ~({"download", "download_count"} \subseteq w0.columns)
             THEN [err |-> "KeyError", w |-> w0, df |-> df]
        ELSE IF "search_count" \notin w0.columns
             THEN [err |-> "KeyError", w |-> w1, df |-> df]
        ELSE IF "viewed_records" \notin w0.columns
             THEN [err |-> "KeyError", w |-> w2, df |-> df]
        ELSE [err |-> "none", w |-> w3, df |-> df]

-----------------------------------------------------------------------------
(* plot_annual_summary *)

\* the four metrics of the annual summary, in bar order
metrics == <<"search", "download", "seen", "viewed_records">>

\* a variant that binds df2 to the caller's object instead of copying it
copy_alias(objs, ref) == [objs |-> objs, ref |-> ref]

\* DataFrame.copy(): a new object holding the same table.  objs maps the
\* objects alive in the call to their tables; "df" is the caller's frame
copy(objs, ref) == [objs |-> ("df2" :> objs[ref]) @@ objs, ref |-> "df2"]

\* frame[col] = values, in place, on the object ref
SetItem(objs, ref, col, vals) ==
    [objs EXCEPT ![ref] =
        [columns |-> @.columns \cup {col},
         rows |-> [i \in DOMAIN @.rows |-> (col :> vals[i]) @@ @.rows[i]]]]

\* df[df['Metric'].isin(ms)]: a new frame with the rows whose Metric is in ms
FilterIsin(df, ms) ==
    [columns |-> df.columns,
     rows |-> SelectSeq(df.rows, LAMBDA r : r["Metric"] \in Range(ms))]

\* a variant that keeps one row of the pair (aggfunc='first')
AggFirst(df, I) == df.rows[CHOOSE i \in I : \A j \in I : i <= j]["Count"]

\* how pivot_table aggregates the rows I of one (Year, Metric) pair
AggSum(df, I) == SumCounts(df, I)

\* pivot_table(index='Year', columns='Metric', values='Count', aggfunc='sum'):
\* one row per year and one column per metric that occur in df, each cell the
\* aggregate of its rows, NaN where the pair has none
pivot_table(df) ==
    LET idx  == {df.rows[i]["Year"] : i \in DOMAIN df.rows}
        cols == {df.rows[i]["Metric"] : i \in DOMAIN df.rows}
    IN  [index |-> idx, columns |-> cols,
         cell |-> [y \in idx |-> [m \in cols |->
                    IF RowsFor(df, "Year", y, m) = {} THEN NaN
                    ELSE Num(AggSum(df, RowsFor(df, "Year", y, m)))]]]

\* plot_annual_summary: the error raised ("none": the chart is saved), the
\* pivot table, and the caller's frame after the call
plot_annual_summary(df) ==
    LET c     == copy(("df" :> df), "df")
        years == [i \in DOMAIN df.rows |-> YearOf(df.rows[i]["Date"])]
        objs1 == SetItem(c.objs, c.ref, "Year", years)
        df2   == FilterIsin(objs1[c.ref], metrics)
        pv    == fillna(pivot_table(df2), 0)
    IN  IF ~(LongColumns \subseteq df.columns)
        THEN [err |-> "KeyError", pivot |-> NoPivot, df |-> df]
        ELSE IF ~(Range(metrics) \subseteq pv.columns)
             THEN [err |-> "KeyError", pivot |-> pv, df |-> objs1["df"]]
             ELSE [err |-> "none", pivot |-> pv, df |-> objs1["df"]]

-----------------------------------------------------------------------------
(* The remaining inputs *)

Entry(k, m) == [key |-> k, recs |-> (recordset :> m)]

IngestKeys == {<<2020, 1, 1>>, <<2021, 1, 1>>, <<2021>>}

IngestMetrics == {"records", "mediarecords"}

\* annual usage as plot_ratios reads it: one date with any metrics map, and
\* possibly a second one, of another year or the same date keyed differently,
\* where each metric is absent, zero or MaxCount
RatioOptions == RecsOptions(RatioColumns)

SecondOptions ==
    {(recordset :> m) : m \in UNION {[S -> {0, MaxCount}] : S \in SUBSET RatioColumns}}

RatioDates(a, b) ==
    {<<>>,
     <<[key |-> <<2020, 1, 1>>, recs |-> a]>>,
     <<[key |-> <<2020, 1, 1>>, recs |-> a], [key |-> <<2021, 1, 1>>, recs |-> b]>>,
     <<[key |-> <<2020>>, recs |-> b], [key |-> <<2020, 1, 1>>, recs |-> a]>>}

\* annual usage as plot_annual_summary reads it: at most MaxRows
\* (date, metric) entries over two dates of 2020 and one of 2021, alone or
\* after a date of 2019 that reports each of the four summary metrics
AnnualKeys == <<<<2020, 1, 1>>, <<2020, 6, 1>>, <<2021, 1, 1>>>>

AnnualMetrics == Range(metrics) \cup {"download_count"}

AnnualEntrySets ==
    {T \in SUBSET (Range(AnnualKeys) \X AnnualMetrics) : Cardinality(T) <= MaxRows}

BaseDates == {<<>>, <<Entry(<<2019, 1, 1>>, [m \in Range(metrics) |-> 1])>>}

\* the "dates" object reporting the entries st, the keys in ascending order
DatesOfStats(st) ==
    LET ks == SelectSeq(AnnualKeys, LAMBDA k : \E m \in AnnualMetrics : <<k, m>> \in DOMAIN st)
    IN  [i \in DOMAIN ks |->
            Entry(ks[i], [m \in {x \in AnnualMetrics : <<ks[i], x>> \in DOMAIN st} |->
                            st[<<ks[i], m>>]])]

\* the answers explored in runs of main
MainMonthlyResponses ==
    OkResponses({
        <<>>,
        <<Entry(<<2021, 2, 1>>, [search |-> 2, download |-> 1]),
          Entry(<<2021, 1, 1>>, [search |-> 1, download |-> 0])>>,
        <<Entry(<<2021, 1, 1>>, [search |-> 1])>>,
        <<Entry(<<2021, 1, 1>>, [search |-> 1, download |-> 1]),
          Entry(<<2021, 2, 1>>, [search |-> 2])>>})
        \cup ErrorResponses

MainIngestResponses ==
    OkResponses({
        <<>>,
        <<Entry(<<2020, 1, 1>>, [records |-> 2, mediarecords |-> 1]),
          Entry(<<2021, 1, 1>>, [mediarecords |-> 1])>>})
        \cup ErrorResponses

UseMetrics == RatioColumns \cup Range(metrics)

MainUseResponses ==
    OkResponses(
        {<<>>,
         <<Entry(<<2020, 1, 1>>, [m \in UseMetrics |-> 2]),
           Entry(<<2021, 1, 1>>, [m \in UseMetrics \ {"download_count"} |-> 1])>>,
         <<Entry(<<2020, 1, 1>>, [m \in UseMetrics |-> 1]),
           Entry(<<2020>>, [m \in UseMetrics |-> 1])>>}
        \cup {<<Entry(<<2020, 1, 1>>, [m \in S |-> 1])>> : S \in SUBSET UseMetrics})
        \cup ErrorResponses

-----------------------------------------------------------------------------
(* The program *)

MonthlyUrl == "https://search.idigbio.org/v2/summary/stats/search"

IngestUrl == "https://search.idigbio.org/v2/summary/stats/api/"

UseUrl == "https://search.idigbio.org/v2/summary/stats/search/"

\* a variant that sends the request again
requests_get_retry(log, url) ==
    Append(Append(log, [method |-> "GET", url |-> url]), [method |-> "GET", url |-> url])

\* requests.post, requests.get: one HTTP request each
requests_post(log, url) == Append(log, [method |-> "POST", url |-> url])

requests_get(log, url) == Append(log, [method |-> "GET", url |-> url])

\* plt.savefig
savefig(fs, name) == Append(fs, name)

\* a variant that swallows the exception
After_swallow(e, next) == next

\* where control goes after a call: on when nothing was raised, else the
\* exception leaves main (nothing in main catches it)
After(e, next) == IF e = "none" THEN next ELSE "aborted"

Start(at) ==
    /\ pc = at
    /\ resp = NoResponse
    /\ df_month = None
    /\ df_ing = None
    /\ df_use = None
    /\ w = NoPivot
    /\ pivot = NoPivot
    /\ requests = <<>>
    /\ files = <<>>
    /\ printed = FALSE
    /\ err = "none"

\* df_month = fetch_monthly_usage(...) when the server answers r
FetchMonthlyOn(r) ==
    /\ \E out \in fetch_monthly_usage(r) :
        /\ resp' = r
        /\ requests' = requests_post(requests, MonthlyUrl)
        /\ err' = out.err
        /\ df_month' = out.df
        /\ pc' = After(out.err, "plot_usage_bar")
    /\ UNCHANGED <<df_ing, df_use, w, pivot, files, printed>>

PlotUsageBar ==
    /\ pc = "plot_usage_bar"
    /\ LET e == plot_usage_bar(df_month)
       IN  /\ err' = e
           /\ files' = IF e = "none" THEN savefig(files, "usage_monthly.png") ELSE files
           /\ pc' = After(e, "fetch_ingest")
    /\ UNCHANGED <<resp, df_month, df_ing, df_use, w, pivot, requests, printed>>

\* df_ing = fetch_ingest_stats(...) when the server answers r
FetchIngestOn(r) ==
    /\ LET out == fetch_ingest_stats(r)
       IN  /\ resp' = r
           /\ requests' = requests_get(requests, IngestUrl)
           /\ err' = out.err
           /\ df_ing' = out.df
           /\ pc' = After(out.err, "plot_ingest_stats")
    /\ UNCHANGED <<df_month, df_use, w, pivot, files, printed>>

PlotIngestStats ==
    /\ pc = "plot_ingest_stats"
    /\ LET e == plot_ingest_stats(df_ing)
       IN  /\ err' = e
           /\ files' = IF e = "none" THEN savefig(files, "ingest_metrics.png") ELSE files
           /\ pc' = After(e, "fetch_use")
    /\ UNCHANGED <<resp, df_month, df_ing, df_use, w, pivot, requests, printed>>

\* df_use = fetch_use_stats(...) when the server answers r
FetchUseOn(r, next) ==
    /\ LET out == fetch_use_stats(r)
       IN  /\ resp' = r
           /\ requests' = requests_get(requests, UseUrl)
           /\ err' = out.err
           /\ df_use' = out.df
           /\ pc' = After(out.err, next)
    /\ UNCHANGED <<df_month, df_ing, w, pivot, files, printed>>

PlotRatios ==
    /\ pc = "plot_ratios"
    /\ LET out == plot_ratios(df_use)
       IN  /\ err' = out.err
           /\ w' = out.w
           /\ df_use' = out.df
           /\ files' = IF out.err = "none" THEN savefig(files, "usage_ratios.png") ELSE files
           /\ pc' = After(out.err, "plot_annual_summary")
    /\ UNCHANGED <<resp, df_month, df_ing, pivot, requests, printed>>

PlotAnnualSummary ==
    /\ pc = "plot_annual_summary"
    /\ LET out == plot_annual_summary(df_use)
       IN  /\ err' = out.err
           /\ pivot' = out.pivot
           /\ df_use' = out.df
           /\ files' = IF out.err = "none" THEN savefig(files, "annual_summary.png") ELSE files
           /\ pc' = After(out.err, "print")
    /\ UNCHANGED <<resp, df_month, df_ing, w, requests, printed>>

PrintDone ==
    /\ pc = "print"
    /\ printed' = TRUE
    /\ pc' = "done"
    /\ UNCHANGED <<resp, df_month, df_ing, df_use, w, pivot, requests, files, err>>

\* main, on the answers MainMonthlyResponses, MainIngestResponses, MainUseResponses
Init == Start("fetch_monthly")

MainFetchMonthly ==
    /\ pc = "fetch_monthly"
    /\ \E r \in MainMonthlyResponses : FetchMonthlyOn(r)

MainFetchIngest ==
    /\ pc = "fetch_ingest"
    /\ \E r \in MainIngestResponses : FetchIngestOn(r)

MainFetchUse ==
    /\ pc = "fetch_use"
    /\ \E r \in MainUseResponses : FetchUseOn(r, "plot_ratios")

Next ==
    \/ MainFetchMonthly
    \/ PlotUsageBar
    \/ MainFetchIngest
    \/ PlotIngestStats
    \/ MainFetchUse
    \/ PlotRatios
    \/ PlotAnnualSummary
    \/ PrintDone

Spec == Init /\ [][Next]_vars

\* step 1 of main on every monthly answer within the bounds
MonthlyFetch ==
    /\ pc = "fetch_monthly"
    /\ \/ \E ks \in KeySeqs(MonthlyKeys, MaxKeys) :
            \E f \in [DOMAIN ks -> RecsOptions(MonthlyMetrics)] :
                FetchMonthlyOn(Ok(Dates(ks, f)))
       \/ \E r \in ErrorResponses : FetchMonthlyOn(r)

NextMonthly == MonthlyFetch \/ PlotUsageBar

SpecMonthly == Init /\ [][NextMonthly]_vars

\* step 2 of main on every ingestion answer within the bounds
InitIngest == Start("fetch_ingest")

IngestFetch ==
    /\ pc = "fetch_ingest"
    /\ \/ \E ks \in KeySeqs(IngestKeys, MaxKeys) :
            \E f \in [DOMAIN ks -> RecsOptions(IngestMetrics)] :
                FetchIngestOn(Ok(Dates(ks, f)))
       \/ \E r \in ErrorResponses : FetchIngestOn(r)

NextIngest == IngestFetch \/ PlotIngestStats

SpecIngest == InitIngest /\ [][NextIngest]_vars

\* fetch_use_stats and plot_ratios on the annual answers of RatioDates
InitUse == Start("fetch_use")

RatioFetch ==
    /\ pc = "fetch_use"
    /\ \/ \E a \in RatioOptions : \E b \in SecondOptions : \E d \in RatioDates(a, b) :
            FetchUseOn(Ok(d), "plot_ratios")
       \/ \E r \in ErrorResponses : FetchUseOn(r, "plot_ratios")

NextRatios == RatioFetch \/ PlotRatios

SpecRatios == InitUse /\ [][NextRatios]_vars

\* fetch_use_stats and plot_annual_summary on the annual answers of AnnualEntrySets
AnnualFetch ==
    /\ pc = "fetch_use"
    /\ \/ \E S \in AnnualEntrySets : \E st \in [S -> Counts] : \E base \in BaseDates :
            FetchUseOn(Ok(base \o DatesOfStats(st)), "plot_annual_summary")
       \/ \E r \in ErrorResponses : FetchUseOn(r, "plot_annual_summary")

NextAnnual == AnnualFetch \/ PlotAnnualSummary

SpecAnnual == InitUse /\ [][NextAnnual]_vars

-----------------------------------------------------------------------------
(* Properties *)

\* the metrics map the answer gives for the requested recordset at entry i
MetricsAt(i) == DictGet(resp.dates[i].recs, recordset)

\* C1: for a well-formed answer with N distinct date keys,
\* fetch_monthly_usage returns a wide table with exactly N rows (one per date
\* key, also for dates without the requested recordset), in ascending order of
\* Date.
C1_WideTableRows ==
    resp.status = 200 =>
        /\ df_month # None
        /\ Len(df_month.rows) = Len(resp.dates)
        /\ \A i \in DOMAIN resp.dates :
              \E j \in DOMAIN df_month.rows :
                  df_month.rows[j]["Date"] = Num(to_datetime(resp.dates[i].key))
        /\ IsSortedBy(df_month.rows, "Date")

\* C2: in the wide table a metric that is absent from a date's mapping (and
\* present for another date) is zero in that date's row.
C2_MissingMetricZero ==
    (resp.status = 200 /\ df_month # None) =>
        \A j \in DOMAIN df_month.rows : \A c \in df_month.columns \ {"Date"} :
            (\A i \in DOMAIN resp.dates :
                Num(to_datetime(resp.dates[i].key)) = df_month.rows[j]["Date"]
                    => c \notin DOMAIN MetricsAt(i))
                => df_month.rows[j][c] = Num(0)

\* the Count of df_use for (date d, metric m); 0 when df_use has no such row
CountAt(d, m) == SumCounts(df_use, RowsFor(df_use, "Date", d, m))

\* the ratio columns with their numerator and denominator metrics
Ratios ==
    {<<"dlRatio", "download", "download_count">>,
     <<"sdRatio", "download", "search_count">>,
     <<"vsRatio", "viewed_records", "search_count">>}

PlotRatiosRan == resp.status = 200 /\ pc \in {"plot_annual_summary", "aborted"}

\* C5: for any long table, also one where a (Date, Metric) pair occurs in
\* several rows, the pivot of plot_ratios succeeds and each cell is the total
\* Count of the rows of its (Date, Metric) pair.
C5_PivotTotals ==
    (PlotRatiosRan /\ LongColumns \subseteq df_use.columns) =>
        /\ w # NoPivot
        /\ \A i \in DOMAIN df_use.rows :
              LET d == df_use.rows[i]["Date"]
                  m == df_use.rows[i]["Metric"]
              IN  w.cell[d][m] = Num(CountAt(d, m))

\* the rows of df_use of year y and metric m
YearRows(y, m) ==
    {i \in DOMAIN df_use.rows :
        YearOf(df_use.rows[i]["Date"]) = y /\ df_use.rows[i]["Metric"] = m}

\* plot_annual_summary was called on a table with rows
PlotAnnualRan == resp.status = 200 /\ pc \in {"print", "aborted"} /\ df_use.rows # <<>>

ExpectedRequests ==
    <<[method |-> "POST", url |-> MonthlyUrl],
      [method |-> "GET", url |-> IngestUrl],
      [method |-> "GET", url |-> UseUrl]>>

ExpectedFiles ==
    <<"usage_monthly.png", "ingest_metrics.png", "usage_ratios.png", "annual_summary.png">>

\* C6: when a fetch of main receives a non-success status the run aborts at
\* that fetch: the request is not repeated, no later fetch is issued, no chart
\* at or after that step is written, and the completion message is not printed.
C6_AbortOnHttpError ==
    RaisesForStatus(resp.status) =>
        /\ pc = "aborted"
        /\ err = "HTTPError"
        /\ ~printed
        /\ requests = SubSeq(ExpectedRequests, 1, Len(requests))
        /\ files = SubSeq(ExpectedFiles, 1, Len(requests) - 1)

\* the third fetch failed after two charts were written
C6_Witness ==
    /\ RaisesForStatus(resp.status)
    /\ pc = "aborted"
    /\ Len(requests) = 3
    /\ files = <<"usage_monthly.png", "ingest_metrics.png">>

\* C7: each fetch issues exactly one HTTP request (and nothing else issues
\* any), and a successful run of main has issued exactly the three requests
\* monthly usage, annual ingestion, annual usage, in this order, and written
\* the four chart files.
C7_OneRequestPerFetch ==
    /\ [][Len(requests') = Len(requests)
            + (IF pc \in {"fetch_monthly", "fetch_ingest", "fetch_use"} THEN 1 ELSE 0)]_vars
    /\ [](pc = "done" => requests = ExpectedRequests /\ files = ExpectedFiles)

\* a run of main completed
C7_Witness ==
    /\ pc = "done"
    /\ printed
    /\ Len(requests) = 3
    /\ Len(files) = 4

MissingAny(df, cols) == df # None /\ ~(cols \subseteq df.columns)

\* C8: when the table handed to plot_usage_bar, plot_ratios or
\* plot_annual_summary lacks an expected metric column, the chart is still
\* produced and the run does not abort there.
C8_MissingColumnTolerated ==
    /\ (MissingAny(df_month, {"search", "download"}) /\ pc # "plot_usage_bar")
            => "usage_monthly.png" \in Range(files)
    /\ (MissingAny(df_use, RatioColumns) /\ pc \notin {"plot_ratios"})
            => "usage_ratios.png" \in Range(files)
    /\ (MissingAny(df_use, Range(metrics))
            /\ "usage_ratios.png" \in Range(files) /\ pc # "plot_annual_summary")
            => "annual_summary.png" \in Range(files)

\* the entries of the answer that report 'records' for the requested recordset
RecordsEntries == {i \in DOMAIN resp.dates : "records" \in DOMAIN MetricsAt(i)}

RecordsRow(i) ==
    [Date |-> to_datetime(resp.dates[i].key), Metric |-> "records",
     Count |-> MetricsAt(i)["records"]]

\* C9: the table of fetch_ingest_stats holds exactly one row per date key whose
\* mapping has the requested recordset with a 'records' metric (Metric
\* 'records', Count its value) and no other row.
C9_IngestRows ==
    (resp.status = 200 /\ df_ing # None) =>
        /\ Len(df_ing.rows) = Cardinality(RecordsEntries)
        /\ \A r \in {RecordsRow(i) : i \in RecordsEntries} \cup Range(df_ing.rows) :
              Cardinality({j \in DOMAIN df_ing.rows : df_ing.rows[j] = r})
                  = Cardinality({i \in RecordsEntries : RecordsRow(i) = r})

\* one date reports records and mediarecords, another no records: one row
C9_Witness ==
    /\ resp.status = 200
    /\ Len(resp.dates) = 2
    /\ Len(df_ing.rows) = 1
    /\ \E i \in DOMAIN resp.dates : {"records", "mediarecords"} \subseteq DOMAIN MetricsAt(i)
    /\ \E i \in DOMAIN resp.dates : recordset \notin DOMAIN resp.dates[i].recs

\* C10: plot_ratios and plot_annual_summary leave the table they are given as
\* it was (no row or column added, removed or altered), so in main
\* plot_annual_summary reads the table fetch_use_stats returned.
C10_LongTableUnchanged ==
    [][(pc \in {"plot_ratios", "plot_annual_summary"}) => (df_use' = df_use)]_vars

\* both charts were drawn from df_use, plot_ratios having added its ratio
\* columns to its pivoted frame
C10_Witness ==
    /\ pc = "done"
    /\ {"dlRatio", "sdRatio", "vsRatio"} \subseteq w.columns
    /\ Len(df_use.rows) > 6
    /\ pivot.index # {}

====
